---- MODULE Spec2Model ----
(***************************************************************************)
(* Claim-Sense: the claim state machine (app/state_machine/machine.py),    *)
(* the claim model (app/core/models.py), the process monitor               *)
(* (app/monitors/process_monitor.py) and the evaluation fan-out            *)
(* (app/agents/evaluator.py), for one claim held in the claims store.      *)
(***************************************************************************)
EXTENDS Integers, Sequences, FiniteSets, TLC

(* ---------------------------------------------------------------------- *)
(* Bounds                                                                  *)
(* ---------------------------------------------------------------------- *)

\* longest recorded sequence of entered states; operations that move the
\* claim are disabled once it is reached
MaxVisited == 5

\* the most entries an audit log gets
MaxAudit == 2

(* ---------------------------------------------------------------------- *)
(* State model                                                             *)
(* ---------------------------------------------------------------------- *)

SUBMITTED == "SUBMITTED"
UNDER_REVIEW == "UNDER_REVIEW"
FRAUD_INVESTIGATION == "FRAUD_INVESTIGATION"
ASSESSMENT == "ASSESSMENT"
FINAL_DECISION == "FINAL_DECISION"

ClaimState == {SUBMITTED, UNDER_REVIEW, FRAUD_INVESTIGATION, ASSESSMENT, FINAL_DECISION}

\* Python's None, returned by get_next_state
None == "None"

\* TRANSITIONS with a way back from FRAUD_INVESTIGATION to UNDER_REVIEW
TRANSITIONS_with_return ==
  [s \in ClaimState |->
     CASE s = SUBMITTED -> {UNDER_REVIEW}
       [] s = UNDER_REVIEW -> {ASSESSMENT, FRAUD_INVESTIGATION}
       [] s = FRAUD_INVESTIGATION -> {ASSESSMENT, UNDER_REVIEW}
       [] s = ASSESSMENT -> {FINAL_DECISION}
       [] s = FINAL_DECISION -> {}]

\* from_state -> set of valid to_states
TRANSITIONS ==
  [s \in ClaimState |->
     CASE s = SUBMITTED -> {UNDER_REVIEW}
       [] s = UNDER_REVIEW -> {ASSESSMENT, FRAUD_INVESTIGATION}
       [] s = FRAUD_INVESTIGATION -> {ASSESSMENT}
       [] s = ASSESSMENT -> {FINAL_DECISION}
       [] s = FINAL_DECISION -> {}]

\* alpha flags a claim whose amount is greater than this
AmountThreshold == 50000

\* amounts a claim is created with: below, at and above the threshold
Amounts == {1000, AmountThreshold, 60000}

\* Iteration orders of a Python set of ClaimState members. ClaimState is a
\* str enum, its hash is a string hash, which is randomised per process
\* (PYTHONHASHSEED), so list(a_set) may put either member of a two-element
\* set first. Only TRANSITIONS[UNDER_REVIEW] has more than one member, so
\* the two orders below are all that can be observed.
HashOrders ==
  { <<SUBMITTED, UNDER_REVIEW, ASSESSMENT, FRAUD_INVESTIGATION, FINAL_DECISION>>,
    <<SUBMITTED, UNDER_REVIEW, FRAUD_INVESTIGATION, ASSESSMENT, FINAL_DECISION>> }

VARIABLES
  claim,        \* the Claim object: its fields
  hash_order,   \* set iteration order of this process
  last,         \* the last call: operation, arguments, error raised
  visited,      \* the states the claim has been in, in order
  used,         \* the state machine and monitor operations called so far
  registry,     \* ProcessMonitor._event_handlers: state -> handlers, in order
  sched,        \* how the evaluator tasks of a fan-out end: completion order
                \* and the evaluators that raise
  invoked,      \* the handlers the last call invoked, in order
  inserts,      \* the pending states in the order they were inserted
  drain,        \* pending_states as the last insertion left it, and the
                \* length of visited at that time
  orchestrator, \* the global MultiAgentOrchestrator instance: its fields
  inflight      \* the advance requests suspended inside the fan-out, each
                \* with the claim as it was when its fan-out started

vars == <<claim, hash_order, last, visited, used,
          registry, sched, invoked, inserts, drain, orchestrator, inflight>>

Range(s) == {s[i] : i \in 1..Len(s)}

\* list(a_set): the members of S in this process's iteration order
ListOf(S) == SelectSeq(hash_order, LAMBDA x : x \in S)

\* the result of a call: the claim afterwards, the error raised, if any,
\* and the handlers the call invoked
Result(c, e) == [claim |-> c, err |-> e, log |-> <<>>]

(* ---------------------------------------------------------------------- *)
(* Claim (app/core/models.py)                                              *)
(* ---------------------------------------------------------------------- *)

\* Claim(...) as built by create_claim, which appends the initial state to
\* state_history
create_claim(amt, ri) ==
  [amount |-> amt,
   requires_investigation |-> ri,
   current_state |-> SUBMITTED,
   state_history |-> <<SUBMITTED>>,
   pending_states |-> <<>>,
   audit_log |-> <<>>]

\* record_state_change without the `not in self.state_history` test
record_state_change_always_appends(c, new_state) ==
  [c EXCEPT
     !.state_history = Append(@, c.current_state),
     !.current_state = new_state]

record_state_change(c, new_state) ==
  [c EXCEPT
     !.state_history = IF c.current_state \notin Range(@)
                       THEN Append(@, c.current_state) ELSE @,
     !.current_state = new_state]

\* add_audit_entry putting the entry in the place of the log
add_audit_entry_replaces(c, agent_name, decision) ==
  [c EXCEPT !.audit_log = <<[agent_name |-> agent_name, decision |-> decision]>>]

\* an AuditLogEntry is kept by its agent_name and decision
add_audit_entry(c, agent_name, decision) ==
  [c EXCEPT !.audit_log =
     Append(@, [agent_name |-> agent_name, decision |-> decision])]

(* ---------------------------------------------------------------------- *)
(* ClaimStateMachine (app/state_machine/machine.py)                        *)
(* ---------------------------------------------------------------------- *)

\* get_valid_transitions without the pending-state priority
get_valid_transitions_static(c) ==
  ListOf(TRANSITIONS[c.current_state])

get_valid_transitions(c) ==
  IF c.pending_states # <<>>
  THEN <<c.pending_states[1]>>
  ELSE ListOf(TRANSITIONS[c.current_state])

\* can_transition consulting the static graph instead of get_valid_transitions
can_transition_static(c, target_state) ==
  target_state \in TRANSITIONS[c.current_state]

can_transition(c, target_state) ==
  target_state \in Range(get_valid_transitions(c))

\* transition leaving pending_states alone
transition_keeps_pending(c, target_state) ==
  IF ~can_transition(c, target_state)
  THEN Result(c, "InvalidTransition")
  ELSE Result(record_state_change(c, target_state), "None")

transition(c, target_state) ==
  IF ~can_transition(c, target_state)
  THEN Result(c, "InvalidTransition")
  ELSE LET c1 == IF c.pending_states # <<>> /\ target_state = c.pending_states[1]
                 THEN [c EXCEPT !.pending_states = Tail(@)]
                 ELSE c
       IN Result(record_state_change(c1, target_state), "None")

\* insert_state without the check of before_state against TRANSITIONS
insert_state_unvalidated(c, new_state, before_state) ==
  IF new_state \notin Range(c.pending_states)
  THEN Result([c EXCEPT !.pending_states = <<new_state>> \o @], "None")
  ELSE Result(c, "None")

\* insert_state without the `not in claim.pending_states` test
insert_state_always_prepends(c, new_state, before_state) ==
  IF new_state \notin DOMAIN TRANSITIONS
  THEN Result(c, "UnknownState")
  ELSE IF before_state \notin TRANSITIONS[new_state]
  THEN Result(c, "UnsupportedInsertion")
  ELSE Result([c EXCEPT !.pending_states = <<new_state>> \o @], "None")

\* insert_state with append() in place of insert(0, ...)
insert_state_appends(c, new_state, before_state) ==
  IF new_state \notin DOMAIN TRANSITIONS
  THEN Result(c, "UnknownState")
  ELSE IF before_state \notin TRANSITIONS[new_state]
  THEN Result(c, "UnsupportedInsertion")
  ELSE IF new_state \notin Range(c.pending_states)
  THEN Result([c EXCEPT !.pending_states = Append(@, new_state)], "None")
  ELSE Result(c, "None")

insert_state(c, new_state, before_state) ==
  IF new_state \notin DOMAIN TRANSITIONS
  THEN Result(c, "UnknownState")
  ELSE IF before_state \notin TRANSITIONS[new_state]
  THEN Result(c, "UnsupportedInsertion")
  ELSE IF new_state \notin Range(c.pending_states)
  THEN Result([c EXCEPT !.pending_states = <<new_state>> \o @], "None")
  ELSE Result(c, "None")

\* get_next_state going by the static graph when a state is pending
get_next_state_skips_pending(c) ==
  LET valid_transitions == ListOf(TRANSITIONS[c.current_state])
  IN IF valid_transitions = <<>> THEN None ELSE valid_transitions[1]

get_next_state(c) ==
  LET valid_transitions == get_valid_transitions(c)
  IN IF valid_transitions = <<>> THEN None
     ELSE IF c.pending_states # <<>> THEN c.pending_states[1]
     ELSE valid_transitions[1]

advance(c) ==
  LET next_state == get_next_state(c)
  IN IF next_state = None
     THEN Result(c, "TerminalState")
     ELSE transition(c, next_state)

(* ---------------------------------------------------------------------- *)
(* Evaluation fan-out (app/agents/evaluator.py)                            *)
(* ---------------------------------------------------------------------- *)

\* alpha without the amount heuristic
_agent_alpha_ignores_amount(c) ==
  c.requires_investigation

_agent_alpha_evaluate(c) ==
  c.amount > AmountThreshold \/ c.requires_investigation

_agent_beta_evaluate(c) ==
  c.requires_investigation

\* the coroutines handed to asyncio.gather, in argument order
Evaluators == <<"alpha", "beta">>

Evaluate(e, c) ==
  CASE e = "alpha" -> _agent_alpha_evaluate(c)
    [] e = "beta" -> _agent_beta_evaluate(c)

\* the evaluator tasks in the order they complete, each with its flag
Completed(c) ==
  [k \in 1..Len(sched.order) |->
     [name |-> sched.order[k], flag |-> Evaluate(sched.order[k], c)]]

\* gather handing the results back in the order the tasks complete
gather_as_completed(c) ==
  IF sched.raises # {}
  THEN [err |-> "EvaluatorFailure", results |-> <<>>]
  ELSE [err |-> "None",
        results |-> [k \in 1..Len(sched.order) |-> Completed(c)[k].flag]]

\* asyncio.gather: raises when a task raises; otherwise returns one result
\* per coroutine, in argument order, whatever the completion order
gather(c) ==
  IF sched.raises # {}
  THEN [err |-> "EvaluatorFailure", results |-> <<>>]
  ELSE [err |-> "None",
        results |->
          [i \in 1..Len(Evaluators) |->
             LET k == CHOOSE k \in 1..Len(sched.order) :
                        Completed(c)[k].name = Evaluators[i]
             IN Completed(c)[k].flag]]

\* asyncio.gather of the two agents, then any() over the results
agent_evaluation(c) ==
  LET g == gather(c)
  IN [err |-> g.err,
      requires_investigation |-> \E i \in 1..Len(g.results) : g.results[i],
      results |-> g.results]

(* ---------------------------------------------------------------------- *)
(* ProcessMonitor (app/monitors/process_monitor.py)                        *)
(* ---------------------------------------------------------------------- *)

\* _on_under_review inserting whatever the verdict is
_on_under_review_always_inserts(c) ==
  insert_state(c, FRAUD_INVESTIGATION, ASSESSMENT)

_on_under_review(c) ==
  LET evaluation == agent_evaluation(c)
  IN IF evaluation.err # "None"
     THEN Result(c, evaluation.err)
     ELSE IF evaluation.requires_investigation
     THEN insert_state(c, FRAUD_INVESTIGATION, ASSESSMENT)
     ELSE Result(c, "None")

\* the registry after _register_default_handlers
_event_handlers ==
  [s \in ClaimState |-> IF s = UNDER_REVIEW THEN <<"_on_under_review">> ELSE <<>>]

\* handlers a caller registers with register_handler: one that flags the
\* claim and one that inserts a state
UserHandlers == {"flag_claim", "insert_assessment"}

RunHandler(h, c) ==
  CASE h = "_on_under_review" -> _on_under_review(c)
    [] h = "flag_claim" -> Result([c EXCEPT !.requires_investigation = TRUE], "None")
    [] h = "insert_assessment" -> insert_state(c, ASSESSMENT, FINAL_DECISION)

\* the handlers run from the last registered to the first
RECURSIVE RunHandlers_newest_first(_, _)
RunHandlers_newest_first(handlers, c) ==
  IF handlers = <<>> THEN Result(c, "None")
  ELSE LET h == handlers[Len(handlers)]
           r == RunHandler(h, c)
       IN IF r.err # "None"
          THEN [r EXCEPT !.log = <<h>>]
          ELSE LET rest == RunHandlers_newest_first(
                             SubSeq(handlers, 1, Len(handlers) - 1), r.claim)
               IN [rest EXCEPT !.log = <<h>> \o @]

RECURSIVE RunHandlers(_, _)
RunHandlers(handlers, c) ==
  IF handlers = <<>> THEN Result(c, "None")
  ELSE LET r == RunHandler(Head(handlers), c)
       IN IF r.err # "None"
          THEN [r EXCEPT !.log = <<Head(handlers)>>]
          ELSE LET rest == RunHandlers(Tail(handlers), r.claim)
               IN [rest EXCEPT !.log = <<Head(handlers)>> \o @]

on_state_entered(c, state) == RunHandlers(registry[state], c)

register_handler(reg, state, handler) ==
  [reg EXCEPT ![state] = Append(@, handler)]

advance_claim(c) ==
  LET next_state == get_next_state(c)
  IN IF next_state = None
     THEN Result(c, "TerminalState")
     ELSE LET r == transition(c, next_state)
          IN IF r.err # "None" THEN r
             ELSE on_state_entered(r.claim, next_state)

(* ---------------------------------------------------------------------- *)
(* MultiAgentOrchestrator (app/agents/orchestrator.py)                     *)
(* ---------------------------------------------------------------------- *)

\* Scores and confidences are counted in hundredths: 0.8 is 80.

\* TextAnalysisResult.inconsistency_score: an int with ge=0, le=10
Scores == 0..10

\* VisionAnalysisResult.confidence, on both sides of the 0.7 of
\* evaluate_results and on it
Confidences == {50, 70, 80}

\* an Optional result is a sequence: empty for None, else the one result
VisionResults ==
  {<<>>} \cup {<<[mismatch_found |-> m, confidence |-> cf]>> :
                 m \in BOOLEAN, cf \in Confidences}

TextResults ==
  {<<>>} \cup {<<[inconsistency_score |-> n]>> : n \in Scores}

TEXT_INCONSISTENCY_THRESHOLD == 5

\* MultiAgentOrchestrator(): the instance as __init__ leaves it
MultiAgentOrchestrator == [vision_result |-> <<>>, text_result |-> <<>>]

vision_flagged(vision_result) ==
  vision_result # <<>> /\ vision_result[1].mismatch_found

\* the text flag with a threshold that has to be exceeded
text_flagged_above(text_result) ==
  /\ text_result # <<>>
  /\ text_result[1].inconsistency_score > TEXT_INCONSISTENCY_THRESHOLD

text_flagged(text_result) ==
  /\ text_result # <<>>
  /\ text_result[1].inconsistency_score >= TEXT_INCONSISTENCY_THRESHOLD

\* what the vision result appends to fraud_scores
vision_score(vision_result) ==
  IF vision_flagged(vision_result)
  THEN IF vision_result[1].confidence > 70 THEN 80 ELSE 50
  ELSE 10

\* the text score with floor division
text_score_floor_division(text_result) ==
  IF text_flagged(text_result)
  THEN (text_result[1].inconsistency_score \div 10) * 100
  ELSE (text_result[1].inconsistency_score \div 20) * 100

\* the text score without the division
text_score_undivided(text_result) ==
  text_result[1].inconsistency_score * 100

\* the text score as score / 10.0 whether flagged or not
text_score_always_tenths(text_result) ==
  text_result[1].inconsistency_score * 10

\* what the text result appends to fraud_scores: score / 10.0 when flagged,
\* score / 20.0 when not
text_score(text_result) ==
  IF text_flagged(text_result)
  THEN text_result[1].inconsistency_score * 10
  ELSE text_result[1].inconsistency_score * 5

\* fraud_scores as evaluate_results builds it: vision first, then text
fraud_scores(vision_result, text_result) ==
  (IF vision_result # <<>> THEN <<vision_score(vision_result)>> ELSE <<>>)
  \o (IF text_result # <<>> THEN <<text_score(text_result)>> ELSE <<>>)

\* the first of the scores instead of the largest
first_score(scores) ==
  IF scores # <<>> THEN scores[1] ELSE 0

\* max(fraud_scores) if fraud_scores else 0.0
max_score(scores) ==
  IF scores # <<>>
  THEN CHOOSE x \in Range(scores) : \A y \in Range(scores) : y <= x
  ELSE 0

\* evaluate_results falling back to the result the instance kept from an
\* earlier call when it is called without one
evaluate_results_remembers(vision_result, text_result) ==
  LET v == IF vision_result = <<>> THEN orchestrator.vision_result
           ELSE vision_result
      t == IF text_result = <<>> THEN orchestrator.text_result
           ELSE text_result
  IN [requires_investigation |-> vision_flagged(v) \/ text_flagged(t),
      fraud_score |-> max_score(fraud_scores(v, t)),
      vision_flagged |-> vision_flagged(v),
      text_flagged |-> text_flagged(t)]

\* evaluate_results stores its two arguments on the instance and decides
\* from the arguments alone
evaluate_results(vision_result, text_result) ==
  [requires_investigation |->
     vision_flagged(vision_result) \/ text_flagged(text_result),
   fraud_score |-> max_score(fraud_scores(vision_result, text_result)),
   vision_flagged |-> vision_flagged(vision_result),
   text_flagged |-> text_flagged(text_result)]

\* update_claim_for_investigation writing the decision into the flag
update_claim_overwrites_flag(c, orchestrator_result) ==
  IF orchestrator_result.requires_investigation
  THEN [c EXCEPT
          !.requires_investigation = TRUE,
          !.pending_states =
             IF FRAUD_INVESTIGATION \notin Range(@)
             THEN <<FRAUD_INVESTIGATION>> \o @ ELSE @]
  ELSE [c EXCEPT !.requires_investigation = FALSE]

\* update_claim_for_investigation queueing behind what is pending
update_claim_appends(c, orchestrator_result) ==
  IF orchestrator_result.requires_investigation
  THEN [c EXCEPT
          !.requires_investigation = TRUE,
          !.pending_states =
             IF FRAUD_INVESTIGATION \notin Range(@)
             THEN @ \o <<FRAUD_INVESTIGATION>> ELSE @]
  ELSE c

update_claim_for_investigation(c, orchestrator_result) ==
  IF orchestrator_result.requires_investigation
  THEN [c EXCEPT
          !.requires_investigation = TRUE,
          !.pending_states =
             IF FRAUD_INVESTIGATION \notin Range(@)
             THEN <<FRAUD_INVESTIGATION>> \o @ ELSE @]
  ELSE c

(* ---------------------------------------------------------------------- *)
(* The endpoints (app/api/endpoints.py)                                    *)
(* ---------------------------------------------------------------------- *)

\* list.remove(x): s without the first x
Remove(s, x) ==
  LET i == CHOOSE i \in 1..Len(s) : s[i] = x /\ \A j \in 1..(i - 1) : s[j] # x
  IN SubSeq(s, 1, i - 1) \o SubSeq(s, i + 1, Len(s))

\* POST /claims/{id}/advance; target_state is None without a request body
endpoint_advance_claim(c, target_state) ==
  IF c.current_state = FINAL_DECISION
  THEN Result(c, "TerminalState")
  ELSE IF target_state # None
  THEN IF ~can_transition(c, target_state)
       THEN Result(c, "InvalidTransition")
       ELSE LET r == transition(c, target_state)
            IN IF r.err # "None" THEN r
               ELSE on_state_entered(r.claim, target_state)
  ELSE advance_claim(c)

\* POST /claims/{id}/photo, for what the vision agent answers
upload_photo(c, mismatch_found) ==
  IF mismatch_found
  THEN LET queued ==
             IF /\ c.current_state # FRAUD_INVESTIGATION
                /\ FRAUD_INVESTIGATION \notin Range(c.pending_states)
             THEN [c EXCEPT !.pending_states = <<FRAUD_INVESTIGATION>> \o @]
             ELSE c
       IN Result([queued EXCEPT !.requires_investigation = TRUE], "None")
  ELSE Result(c, "None")

\* the scores and verdicts in the JSON a model answers with: a score below
\* 0..10, the threshold and a score above 0..10, and a verdict that is
\* neither of the two
RawScores == {-1, 5, 11}

RawVerdicts == {"CONSISTENT", "SUSPICIOUS", "UNSURE"}

TextResponses == [inconsistency_score : RawScores, verdict : RawVerdicts]

\* text_agent._parse_text_analysis_response: the score is clamped to 0..10,
\* the verdict is kept when it is one of the two and derived from the score
\* otherwise
_parse_text_analysis_response(data) ==
  LET clamp(n) == IF n < 0 THEN 0 ELSE IF n > 10 THEN 10 ELSE n
      score == clamp(data.inconsistency_score)
  IN [inconsistency_score |-> score,
      verdict |-> IF data.verdict \notin {"CONSISTENT", "SUSPICIOUS"}
                  THEN IF score >= 5 THEN "SUSPICIOUS" ELSE "CONSISTENT"
                  ELSE data.verdict]

\* POST /claims/{id}/analyze-text, for the analysis the text agent returns
analyze_text(c, analysis) ==
  IF analysis.verdict = "SUSPICIOUS"
  THEN Result([c EXCEPT
                 !.pending_states =
                    IF FRAUD_INVESTIGATION \notin Range(@)
                    THEN <<FRAUD_INVESTIGATION>> \o @ ELSE @,
                 !.requires_investigation = TRUE], "None")
  ELSE Result(c, "None")

\* POST /claims/{id}/full-analysis, for what the agents that ran answer
full_analysis(c, vision_result, text_result) ==
  LET orch_result == evaluate_results(vision_result, text_result)
  IN Result(update_claim_for_investigation(c, orch_result), "None")

\* POST /claims/{id}/reject
reject_claim(c) ==
  LET moved == record_state_change([c EXCEPT !.pending_states = <<>>],
                                   FINAL_DECISION)
  IN Result(add_audit_entry(moved, "Human Operator", "REJECTED"), "None")

\* POST /claims/{id}/approve
approve_claim(c) ==
  LET cleared ==
        IF FRAUD_INVESTIGATION \in Range(c.pending_states)
        THEN [c EXCEPT !.pending_states = Remove(@, FRAUD_INVESTIGATION)]
        ELSE c
      moved ==
        CASE c.current_state = FRAUD_INVESTIGATION ->
               record_state_change(cleared, ASSESSMENT)
          [] c.current_state = SUBMITTED ->
               record_state_change(cleared, UNDER_REVIEW)
          [] c.current_state = UNDER_REVIEW ->
               record_state_change(cleared, ASSESSMENT)
          [] c.current_state = ASSESSMENT ->
               record_state_change(cleared, FINAL_DECISION)
          [] OTHER -> cleared
  IN Result(add_audit_entry([moved EXCEPT !.requires_investigation = FALSE],
                            "Human Operator", "APPROVED"), "None")

(* ---------------------------------------------------------------------- *)
(* The calls                                                               *)
(* ---------------------------------------------------------------------- *)

Call(op, a1, a2) == [op |-> op, a1 |-> a1, a2 |-> a2]

\* the call entered a state: it was a transition, advance or advance_claim
\* that did not raise, or an advance_claim whose handler raised, which is
\* after its transition; approve_claim and reject_claim enter a state when
\* they move the claim
Entered(call, r) ==
  \/ /\ call.op \in {"transition", "advance", "advance_claim",
                     "endpoint_advance_claim"}
     /\ r.err \in {"None", "EvaluatorFailure"}
  \/ /\ call.op \in {"approve_claim", "reject_claim"}
     /\ r.claim.current_state # claim.current_state

\* the operations of the state machine and of the monitor
MachineCalls ==
  {"transition", "insert_state", "advance", "advance_claim", "register_handler"}

\* store the result r of the call `call`: the claim object as the call left
\* it, and what the call did
Store(call, r) ==
  /\ Entered(call, r) => Len(visited) < MaxVisited
  /\ claim' = r.claim
  /\ last' = [op |-> call.op, a1 |-> call.a1, a2 |-> call.a2, err |-> r.err]
  /\ visited' = IF Entered(call, r)
                THEN Append(visited, r.claim.current_state) ELSE visited
  /\ used' = used \cup ({call.op} \cap MachineCalls)
  /\ invoked' = r.log

\* apply the result r of the call `call` to the stored claim
Apply(call, r) ==
  /\ Store(call, r)
  /\ UNCHANGED <<hash_order, registry, sched, inserts, drain, orchestrator,
                 inflight>>

TransitionOp ==
  \E target_state \in ClaimState :
    Apply(Call("transition", target_state, None), transition(claim, target_state))

\* the (new_state, before_state) pairs insert_state is called with: the
\* monitor's own pair, one more pair onto each edge of the default flow
\* after UNDER_REVIEW, and pairs the static graph does not support
InsertArgs ==
  { <<FRAUD_INVESTIGATION, ASSESSMENT>>,
    <<ASSESSMENT, FINAL_DECISION>>,
    <<ASSESSMENT, SUBMITTED>>,
    <<FINAL_DECISION, ASSESSMENT>> }

InsertStateOp ==
  \E args \in InsertArgs :
    Apply(Call("insert_state", args[1], args[2]),
          insert_state(claim, args[1], args[2]))

AdvanceOp ==
  Apply(Call("advance", None, None), advance(claim))

AdvanceClaimOp ==
  Apply(Call("advance_claim", None, None), advance_claim(claim))

\* the claims store after create_claim, in a fresh process
Created ==
  /\ hash_order \in HashOrders
  /\ last = [op |-> "create_claim", a1 |-> None, a2 |-> None, err |-> "None"]
  /\ visited = <<SUBMITTED>>
  /\ used = {}
  /\ invoked = <<>>
  /\ inserts = <<>>
  /\ drain = [queue |-> <<>>, at |-> 1]
  /\ orchestrator = MultiAgentOrchestrator
  /\ inflight = <<>>

\* both evaluators return, alpha first
SchedDefault == [order |-> Evaluators, raises |-> {}]

Init ==
  /\ \E amt \in Amounts, ri \in BOOLEAN : claim = create_claim(amt, ri)
  /\ Created
  /\ registry = _event_handlers
  /\ sched = SchedDefault

Next ==
  \/ TransitionOp
  \/ InsertStateOp
  \/ AdvanceOp
  \/ AdvanceClaimOp

Spec == Init /\ [][Next]_vars

-----------------------------------------------------------------------------
\* The monitor: advance_claim calls on a created claim, with handlers
\* registered along the way and every way the evaluator tasks can end.

MaxHandlers == 2

\* the completion orders of the two evaluator tasks
Orders == {<<"alpha", "beta">>, <<"beta", "alpha">>}

Scheds == [order : Orders, raises : SUBSET Range(Evaluators)]

\* the states handlers are registered for
RegisterStates == {UNDER_REVIEW, FRAUD_INVESTIGATION, ASSESSMENT}

\* the number of handlers in a registry
Registered(reg) ==
  Len(reg[SUBMITTED]) + Len(reg[UNDER_REVIEW]) + Len(reg[FRAUD_INVESTIGATION])
  + Len(reg[ASSESSMENT]) + Len(reg[FINAL_DECISION])

RegisterHandlerOp ==
  \E state \in RegisterStates, handler \in UserHandlers :
    /\ Registered(registry) - Registered(_event_handlers) < MaxHandlers
    /\ registry' = register_handler(registry, state, handler)
    /\ last' = [op |-> "register_handler", a1 |-> state, a2 |-> handler,
                err |-> "None"]
    /\ used' = used \cup {"register_handler"}
    /\ UNCHANGED <<claim, hash_order, visited, sched, invoked, inserts, drain,
                   orchestrator, inflight>>

InitMonitor ==
  /\ \E amt \in Amounts, ri \in BOOLEAN : claim = create_claim(amt, ri)
  /\ Created
  /\ registry = _event_handlers
  /\ sched \in Scheds

NextMonitor ==
  \/ RegisterHandlerOp
  \/ AdvanceClaimOp

SpecMonitor == InitMonitor /\ [][NextMonitor]_vars

-----------------------------------------------------------------------------
\* The API: the endpoints that move a claim or queue a state, called on a
\* created claim.

EndpointAdvanceOp ==
  \E target_state \in ClaimState \cup {None} :
    Apply(Call("endpoint_advance_claim", target_state, None),
          endpoint_advance_claim(claim, target_state))

UploadPhotoOp ==
  \E mismatch_found \in BOOLEAN :
    Apply(Call("upload_photo", mismatch_found, None),
          upload_photo(claim, mismatch_found))

ApproveClaimOp ==
  /\ Len(claim.audit_log) < MaxAudit
  /\ Apply(Call("approve_claim", None, None), approve_claim(claim))

AnalyzeTextOp ==
  \E data \in TextResponses :
    LET analysis == _parse_text_analysis_response(data)
    IN Apply(Call("analyze_text", analysis, None),
             analyze_text(claim, analysis))

\* full_analysis calls evaluate_results on the global orchestrator, which
\* keeps the two results it was called with
FullAnalysisOp ==
  \E vision_result \in VisionResults, text_result \in TextResults :
    /\ Store(Call("full_analysis", vision_result, text_result),
             full_analysis(claim, vision_result, text_result))
    /\ orchestrator' = [vision_result |-> vision_result,
                        text_result |-> text_result]
    /\ UNCHANGED <<hash_order, registry, sched, inserts, drain, inflight>>

RejectClaimOp ==
  /\ Len(claim.audit_log) < MaxAudit
  /\ Apply(Call("reject_claim", None, None), reject_claim(claim))

\* decisions of the aggregator: nothing ran, vision flagged, text flagged,
\* text ran and did not flag
Decisions ==
  { evaluate_results(<<>>, <<>>),
    evaluate_results(<<[mismatch_found |-> TRUE, confidence |-> 80]>>, <<>>),
    evaluate_results(<<>>, <<[inconsistency_score |-> 5]>>),
    evaluate_results(<<>>, <<[inconsistency_score |-> 4]>>) }

\* update_claim_for_investigation called with a decision
UpdateClaimOp ==
  \E orchestrator_result \in Decisions :
    Apply(Call("update_claim_for_investigation", orchestrator_result, None),
          Result(update_claim_for_investigation(claim, orchestrator_result),
                 "None"))

NextApi ==
  \/ EndpointAdvanceOp
  \/ UploadPhotoOp
  \/ ApproveClaimOp
  \/ AnalyzeTextOp
  \/ RejectClaimOp
  \/ UpdateClaimOp

SpecApi == Init /\ [][NextApi]_vars

-----------------------------------------------------------------------------
\* The aggregator: full-analysis calls with every answer of the two agents,
\* on a claim that the monitor advances.

NextAggregator ==
  \/ FullAnalysisOp
  \/ AdvanceClaimOp

SpecAggregator == Init /\ [][NextAggregator]_vars

-----------------------------------------------------------------------------
\* The orchestrator instance: full-analysis calls one after the other on
\* the one global instance, with every answer of the two agents.

NextOrchestrator == FullAnalysisOp

SpecOrchestrator == Init /\ [][NextOrchestrator]_vars

-----------------------------------------------------------------------------
\* Routing: the two ways a state is queued, insert_state and the
\* aggregator's decision, on a claim that advance moves.

NextRouting ==
  \/ InsertStateOp
  \/ AdvanceOp
  \/ UpdateClaimOp

SpecRouting == Init /\ [][NextRouting]_vars

-----------------------------------------------------------------------------
\* The writers of pending_states: insert_state, the monitor's advance with
\* its transition and default reaction, the aggregator's decision, the two
\* analysis endpoints and the two human overrides, on a claim whose amount
\* makes the default reaction insert.

InitPending ==
  /\ \E ri \in BOOLEAN : claim = create_claim(60000, ri)
  /\ Created
  /\ registry = _event_handlers
  /\ sched = SchedDefault

NextPending ==
  \/ InsertStateOp
  \/ AdvanceClaimOp
  \/ UpdateClaimOp
  \/ UploadPhotoOp
  \/ AnalyzeTextOp
  \/ ApproveClaimOp
  \/ RejectClaimOp

SpecPending == InitPending /\ [][NextPending]_vars

-----------------------------------------------------------------------------
\* The writers of state_history: transition and advance, with insert_state
\* to bring a claim back to a state, and the two human overrides. The amount
\* plays no part in these calls.

NextHistory ==
  \/ TransitionOp
  \/ AdvanceOp
  \/ InsertStateOp
  \/ ApproveClaimOp
  \/ RejectClaimOp

SpecHistory == InitPending /\ [][NextHistory]_vars

-----------------------------------------------------------------------------
\* The pending queue observed: insert_state and advance calls on a created
\* claim, with the order of arrival of the pending states kept beside it.

\* the pending states of c2 in their order of arrival, given that order for
\* the claim c1 the call started from
Arrivals(c1, c2) ==
  LET Kept(x) == x \in Range(c2.pending_states)
      New(x) == x \notin Range(c1.pending_states)
  IN SelectSeq(inserts, Kept) \o SelectSeq(c2.pending_states, New)

\* Apply, keeping the arrival order and the queue the last insert_state call
\* left
ApplyQueue(call, r) ==
  /\ Store(call, r)
  /\ inserts' = Arrivals(claim, r.claim)
  /\ drain' = IF call.op = "insert_state" /\ r.err = "None"
              THEN [queue |-> r.claim.pending_states, at |-> Len(visited)]
              ELSE drain
  /\ UNCHANGED <<hash_order, registry, sched, orchestrator, inflight>>

\* InsertArgs and a third state the static graph lets insert_state queue
QueueInsertArgs == InsertArgs \cup {<<UNDER_REVIEW, ASSESSMENT>>}

QueueInsertOp ==
  \E args \in QueueInsertArgs :
    ApplyQueue(Call("insert_state", args[1], args[2]),
               insert_state(claim, args[1], args[2]))

QueueAdvanceOp ==
  ApplyQueue(Call("advance", None, None), advance(claim))

NextQueue ==
  \/ QueueInsertOp
  \/ QueueAdvanceOp

SpecQueue == Init /\ [][NextQueue]_vars

-----------------------------------------------------------------------------
\* Concurrent requests: the endpoints are coroutines on one event loop and
\* share the Claim objects of claims_store, with no lock per claim. A
\* POST /advance that enters a state with handlers is suspended in the
\* handler's `await agent_evaluation(claim)`, its transition already made
\* on the shared object; the evaluators read the claim when they resume
\* from asyncio.sleep. Other requests run in between.

\* POST /claims/{id}/advance up to its first await: the terminal check and
\* the transition, asked for or automatic
endpoint_advance_claim_transition(c, target_state) ==
  IF c.current_state = FINAL_DECISION
  THEN Result(c, "TerminalState")
  ELSE IF target_state # None
  THEN IF ~can_transition(c, target_state)
       THEN Result(c, "InvalidTransition")
       ELSE transition(c, target_state)
  ELSE LET next_state == get_next_state(c)
       IN IF next_state = None
          THEN Result(c, "TerminalState")
          ELSE transition(c, next_state)

\* a request arrives and runs to its first suspension: to its end when it
\* fails or the state it enters has no handler, else into the fan-out
BeginAdvanceOp ==
  \E target_state \in ClaimState \cup {None} :
    LET r == endpoint_advance_claim_transition(claim, target_state)
        state == r.claim.current_state
        call == Call("endpoint_advance_claim", target_state, None)
    IN IF r.err = "None" /\ registry[state] # <<>>
       THEN /\ Store(call, r)
            /\ inflight' = Append(inflight,
                                  [state |-> state, snapshot |-> r.claim])
            /\ UNCHANGED <<hash_order, registry, sched, inserts, drain,
                           orchestrator>>
       ELSE Apply(call, r)

\* the evaluators of a suspended request wake up, read the claim as it is
\* now, and the handlers run to their end
ResumeOp ==
  \E i \in 1..Len(inflight) :
    LET request == inflight[i]
    IN /\ Store(Call("on_state_entered", request.state, request.snapshot),
                on_state_entered(claim, request.state))
       /\ inflight' = SubSeq(inflight, 1, i - 1)
                        \o SubSeq(inflight, i + 1, Len(inflight))
       /\ UNCHANGED <<hash_order, registry, sched, inserts, drain,
                      orchestrator>>

NextConcurrent ==
  \/ BeginAdvanceOp
  \/ ResumeOp
  \/ UploadPhotoOp

SpecConcurrent == Init /\ [][NextConcurrent]_vars

(* ---------------------------------------------------------------------- *)
(* Properties                                                              *)
(* ---------------------------------------------------------------------- *)

IsPrefix(s, t) == Len(s) <= Len(t) /\ \A i \in 1..Len(s) : s[i] = t[i]

Count(x, s) == Cardinality({i \in 1..Len(s) : s[i] = x})

EngineCalls == {"insert_state", "transition", "advance"}

\* C1: get_valid_transitions returns exactly [pending_states[0]] when
\* pending_states is non-empty, whatever current_state and the static graph
\* are, and exactly the members of TRANSITIONS[current_state] when it is
\* empty.
C1_ValidTransitions ==
  LET vt == get_valid_transitions(claim)
  IN IF claim.pending_states # <<>>
     THEN vt = <<claim.pending_states[1]>>
     ELSE /\ Range(vt) = TRANSITIONS[claim.current_state]
          /\ Len(vt) = Cardinality(TRANSITIONS[claim.current_state])

\* a pending state that the static graph does not offer from current_state
C1_Witness ==
  /\ claim.pending_states # <<>>
  /\ claim.pending_states[1] \notin TRANSITIONS[claim.current_state]
  /\ TRANSITIONS[claim.current_state] # {}

\* C2 (as claimed): every move made by transition or advance, in a run of
\* insert_state, transition and advance calls, follows an edge of the
\* static graph.
C2_MovesFollowStaticGraph ==
  [][(/\ last'.op \in {"transition", "advance"}
      /\ last'.err = "None"
      /\ used' \subseteq EngineCalls)
     => claim'.current_state \in TRANSITIONS[claim.current_state]]_vars

\* C3: transition raises exactly when the target is not in
\* get_valid_transitions (can_transition is false), and a transition that
\* raised leaves the claim as it was.
C3_TransitionFailure ==
  [][last'.op = "transition"
     => /\ last'.err \in {"None", "InvalidTransition"}
        /\ (last'.err = "InvalidTransition")
             <=> (last'.a1 \notin Range(get_valid_transitions(claim)))
        /\ (last'.err = "InvalidTransition") <=> ~can_transition(claim, last'.a1)
        /\ last'.err # "None" => claim' = claim]_vars

\* a transition refused because of the pending state, although the static
\* graph has the edge
C3_Witness ==
  /\ last.op = "transition"
  /\ last.err = "InvalidTransition"
  /\ claim.pending_states # <<>>
  /\ last.a1 \in TRANSITIONS[claim.current_state]

ScenarioB_Path == <<SUBMITTED, UNDER_REVIEW, ASSESSMENT, FINAL_DECISION>>

\* C4 (as claimed): a claim of amount 1000 that no evaluator flags and that
\* is only ever advanced with reactions visits SUBMITTED, UNDER_REVIEW,
\* ASSESSMENT, FINAL_DECISION in that order and never FRAUD_INVESTIGATION.
C4_ScenarioB ==
  (/\ claim.amount = 1000
   /\ ~claim.requires_investigation
   /\ used \subseteq {"advance_claim"})
  => /\ IsPrefix(visited, ScenarioB_Path)
     /\ claim.current_state # FRAUD_INVESTIGATION

ScenarioA_Path ==
  <<SUBMITTED, UNDER_REVIEW, FRAUD_INVESTIGATION, ASSESSMENT, FINAL_DECISION>>

\* C5: for a claim of amount 60000 the fan-out returns
\* requires_investigation = true, and a claim that is only ever advanced
\* with reactions visits UNDER_REVIEW, FRAUD_INVESTIGATION, ASSESSMENT,
\* FINAL_DECISION in that order: no advance fails before FINAL_DECISION.
C5_ScenarioA ==
  (claim.amount = 60000 /\ used \subseteq {"advance_claim"})
  => /\ agent_evaluation(claim).requires_investigation
     /\ IsPrefix(visited, ScenarioA_Path)
     /\ claim.current_state = UNDER_REVIEW
          => claim.pending_states = <<FRAUD_INVESTIGATION>>
     /\ last.err # "None" => visited = ScenarioA_Path

\* the flagged claim has gone all the way, with only alpha flagging
C5_Witness ==
  /\ claim.amount = 60000
  /\ ~claim.requires_investigation
  /\ used = {"advance_claim"}
  /\ visited = ScenarioA_Path

\* C6 (as claimed): in a run of transition and advance calls, in which
\* nothing is inserted, current_state is never FRAUD_INVESTIGATION.
C6_FraudOnlyByInsertion ==
  used \subseteq {"transition", "advance"}
  => claim.current_state # FRAUD_INVESTIGATION

\* C7 (as claimed): a claim in FINAL_DECISION stays there under advance,
\* transition and insert_state, and advance fails there with TerminalState.
C7_FinalDecisionTerminal ==
  [][(claim.current_state = FINAL_DECISION /\ used' \subseteq EngineCalls)
     => /\ claim'.current_state = FINAL_DECISION
        /\ last'.op = "advance" => last'.err = "TerminalState"]_vars

\* C8: insert_state raises whenever before_state is not in
\* TRANSITIONS[new_state], for every pair of states and every reachable
\* claim, and an insertion that raised leaves the claim as it was.
C8_UnsupportedInsertion ==
  [][/\ \A n \in ClaimState, b \in ClaimState :
          b \notin TRANSITIONS[n]
          => insert_state(claim, n, b) = Result(claim, "UnsupportedInsertion")
     /\ last'.op = "insert_state"
        => /\ last'.a2 \notin TRANSITIONS[last'.a1]
                => last'.err = "UnsupportedInsertion"
           /\ last'.err # "None" => claim' = claim]_vars

\* scenario E, on a claim that has pending states to lose
C8_Witness ==
  /\ last = [op |-> "insert_state", a1 |-> ASSESSMENT, a2 |-> SUBMITTED,
             err |-> "UnsupportedInsertion"]
  /\ claim.pending_states # <<>>

\* C9: inserting a state that is already in pending_states changes nothing,
\* and after every successful insertion the inserted state occurs exactly
\* once in pending_states.
C9_InsertIdempotent ==
  [][(last'.op = "insert_state" /\ last'.err = "None")
     => /\ last'.a1 \in Range(claim.pending_states) => claim' = claim
        /\ Count(last'.a1, claim'.pending_states) = 1]_vars

\* the state inserted last sits behind a later insertion: it was inserted
\* a second time
C9_Witness ==
  /\ last.op = "insert_state"
  /\ last.err = "None"
  /\ Len(claim.pending_states) >= 2
  /\ claim.pending_states[1] # last.a1
  /\ Count(last.a1, claim.pending_states) = 1

\* C10: a successful insertion of a state that is not pending puts it at
\* the front of pending_states with the earlier entries behind it in their
\* order, leaves current_state and state_history alone, and makes the
\* inserted state the only valid transition.
C10_InsertPrepends ==
  [][(/\ last'.op = "insert_state"
      /\ last'.err = "None"
      /\ last'.a1 \notin Range(claim.pending_states))
     => /\ claim'.pending_states = <<last'.a1>> \o claim.pending_states
        /\ claim'.current_state = claim.current_state
        /\ claim'.state_history = claim.state_history
        /\ get_valid_transitions(claim') = <<last'.a1>>]_vars

\* the inserted state is in front of an earlier pending entry
C10_Witness ==
  /\ last.op = "insert_state"
  /\ last.err = "None"
  /\ Len(claim.pending_states) >= 2
  /\ claim.pending_states[1] = last.a1

Max(S) == CHOOSE x \in S : \A y \in S : y <= x

\* the number of moves of the longest path of the static graph from s
RECURSIVE LongestPath(_)
LongestPath(s) ==
  IF TRANSITIONS[s] = {} THEN 0
  ELSE 1 + Max({LongestPath(t) : t \in TRANSITIONS[s]})

\* the states entered since the last insert_state call
DrainRun == SubSeq(visited, drain.at + 1, Len(visited))

\* C11 (as claimed): when advance calls alone have brought a claim whose
\* pending_states was non-empty to FINAL_DECISION, every entry of that
\* pending_states has been entered exactly once, the entries in queue order
\* from pending_states[0] on, and all of them before any state the default
\* flow chose.
C11_PendingEnteredOnce ==
  (/\ last.op = "advance"
   /\ last.err = "None"
   /\ claim.current_state = FINAL_DECISION
   /\ drain.queue # <<>>)
  => /\ IsPrefix(drain.queue, DrainRun)
     /\ \A i \in 1..Len(drain.queue) : Count(drain.queue[i], DrainRun) = 1

C13_NextStateDetermined ==
  LET vt == get_valid_transitions(claim)
      n == get_next_state(claim)
  IN /\ claim.pending_states # <<>> => n = claim.pending_states[1]
     /\ claim.pending_states = <<>>
          => /\ Len(vt) <= 1
             /\ Len(vt) = 1 => n = vt[1]
             /\ Len(vt) = 0 => n = None

\* pending entries still to enter, then the default path from the last of
\* them (from current_state when nothing is pending)
Remaining(c) ==
  Len(c.pending_states)
  + LongestPath(IF c.pending_states = <<>> THEN c.current_state
                ELSE c.pending_states[Len(c.pending_states)])

\* C14 (as claimed): every state put in pending_states is entered by a
\* caller who keeps advancing the claim, also a state an analysis endpoint
\* queued while the claim was in ASSESSMENT or FINAL_DECISION: when the
\* advance endpoint answers that the claim rests in FINAL_DECISION, nothing
\* is pending.
C14_PendingIsMandatory ==
  (/\ last.op = "endpoint_advance_claim"
   /\ last.err = "TerminalState"
   /\ claim.current_state = FINAL_DECISION)
  => claim.pending_states = <<>>

\* C15 (as claimed): in a run of insert_state, transition and advance calls
\* every successful advance brings the claim nearer to FINAL_DECISION, by
\* the count of pending entries plus the remaining default path, and once
\* the claim is in FINAL_DECISION advance fails with TerminalState.
C15_AdvanceTerminates ==
  [][(last'.op = "advance" /\ used' \subseteq EngineCalls)
     => /\ last'.err \in {"None", "TerminalState"}
        /\ last'.err = "None" => Remaining(claim') < Remaining(claim)
        /\ claim.current_state = FINAL_DECISION => last'.err = "TerminalState"
        /\ last'.err = "TerminalState" => claim.current_state = FINAL_DECISION]_vars

\* C16 (as claimed): when an evaluator raises in the fan-out that
\* advance_claim runs on entering UNDER_REVIEW, advance_claim raises, and the
\* claim is as it was before the call: current_state, state_history,
\* pending_states and requires_investigation are the same, so no
\* FRAUD_INVESTIGATION entry and no flag is recorded.
C16_FailureLeavesClaim ==
  [][(last'.op = "advance_claim" /\ sched.raises # {}
      /\ get_next_state(claim) = UNDER_REVIEW)
     => /\ last'.err = "EvaluatorFailure"
        /\ claim' = claim]_vars

\* C17 (as claimed): every endpoint call that changes current_state to
\* UNDER_REVIEW, by auto-advance, by advance to a target or by approval of
\* a SUBMITTED claim, runs the handlers of UNDER_REVIEW, the evaluation
\* fan-out among them, before it returns.
C17_EnteringRunsFanout ==
  [][(claim.current_state # UNDER_REVIEW
      /\ claim'.current_state = UNDER_REVIEW)
     => invoked' = registry[UNDER_REVIEW]]_vars

\* C18: when advance_claim brings a claim into UNDER_REVIEW, the default
\* reaction is invoked, and it calls insert_state(FRAUD_INVESTIGATION,
\* ASSESSMENT) on the claim if the verdict of the fan-out flags and leaves
\* pending_states as the transition left it if not.
C18_DefaultReaction ==
  [][(/\ last'.op = "advance_claim"
      /\ last'.err = "None"
      /\ claim'.current_state = UNDER_REVIEW)
     => LET entered == transition(claim, UNDER_REVIEW).claim
            flagged == agent_evaluation(entered).requires_investigation
        IN /\ invoked' = <<"_on_under_review">>
           /\ flagged
                => /\ claim' = insert_state(entered, FRAUD_INVESTIGATION, ASSESSMENT).claim
                   /\ claim'.pending_states[1] = FRAUD_INVESTIGATION
           /\ ~flagged
                => /\ claim'.pending_states = entered.pending_states
                   /\ claim' = entered]_vars

\* a claim that was not flagged has entered UNDER_REVIEW with its pending
\* states left alone
C18_Witness ==
  /\ last.op = "advance_claim"
  /\ last.err = "None"
  /\ claim.current_state = UNDER_REVIEW
  /\ invoked = <<"_on_under_review">>
  /\ ~agent_evaluation(claim).requires_investigation
  /\ FRAUD_INVESTIGATION \notin Range(claim.pending_states)

\* C19: when no evaluator raises, the verdict of the fan-out is the OR of
\* the flags of all evaluators whatever the order the evaluators complete
\* in, and the results hold one flag per evaluator, in argument order, also
\* when the evaluator that completes first has flagged.
C19_VerdictIsOr ==
  sched.raises = {}
  => LET evaluation == agent_evaluation(claim)
     IN /\ evaluation.err = "None"
        /\ evaluation.requires_investigation
             = (_agent_alpha_evaluate(claim) \/ _agent_beta_evaluate(claim))
        /\ Len(evaluation.results) = Len(Evaluators)
        /\ \A i \in 1..Len(Evaluators) :
             evaluation.results[i] = Evaluate(Evaluators[i], claim)

\* the fan-out has run for a claim that alpha flags and beta does not, beta
\* completing first
C19_Witness ==
  /\ last.op = "advance_claim"
  /\ last.err = "None"
  /\ invoked = <<"_on_under_review">>
  /\ sched = [order |-> <<"beta", "alpha">>, raises |-> {}]
  /\ _agent_alpha_evaluate(claim)
  /\ ~_agent_beta_evaluate(claim)
  /\ claim.pending_states = <<FRAUD_INVESTIGATION>>

\* the claim after the handlers hs have run on c one after the other
RECURSIVE Thread(_, _)
Thread(hs, c) ==
  IF hs = <<>> THEN c ELSE Thread(Tail(hs), RunHandler(Head(hs), c).claim)

\* C20: advance_claim, once its transition is applied, runs the handlers
\* registered for the state just entered and no other, one at a time in
\* registration order, each on the claim the one before returned, the
\* first on the claim the transition returned; a handler that raises ends
\* the run.
C20_HandlersInOrder ==
  [][(last'.op = "advance_claim"
      /\ last'.err \notin {"TerminalState", "InvalidTransition"})
     => LET next_state == get_next_state(claim)
            entered == transition(claim, next_state).claim
        IN /\ claim'.current_state = next_state
           /\ IsPrefix(invoked', registry[next_state])
           /\ last'.err = "None" => invoked' = registry[next_state]
           /\ claim' = Thread(invoked', entered)]_vars

\* two handlers have run for UNDER_REVIEW, the registered one after the
\* default one, while another state has a handler of its own
C20_Witness ==
  /\ last.op = "advance_claim"
  /\ last.err = "None"
  /\ claim.current_state = UNDER_REVIEW
  /\ invoked = <<"_on_under_review", "flag_claim">>
  /\ registry[ASSESSMENT] = <<"insert_assessment">>
  /\ claim.requires_investigation
  /\ claim.pending_states = <<>>

\* C21: a successful transition(claim, target) sets current_state to
\* target, removes the front entry of pending_states and keeps the others
\* in order when something was pending, leaves pending_states empty when
\* nothing was, invokes no handler and changes no other field but
\* state_history.
C21_TransitionEffect ==
  [][(last'.op = "transition" /\ last'.err = "None")
     => /\ claim'.current_state = last'.a1
        /\ claim.pending_states # <<>>
             => /\ claim.pending_states[1] = last'.a1
                /\ claim'.pending_states = Tail(claim.pending_states)
        /\ claim.pending_states = <<>> => claim'.pending_states = <<>>
        /\ invoked' = <<>>
        /\ claim'.amount = claim.amount
        /\ claim'.requires_investigation = claim.requires_investigation]_vars

\* transition has consumed the front of a queue of two
C21_Witness ==
  /\ last = [op |-> "transition", a1 |-> ASSESSMENT, a2 |-> None,
             err |-> "None"]
  /\ claim.current_state = ASSESSMENT
  /\ claim.pending_states = <<FRAUD_INVESTIGATION>>

\* C22 (as claimed): every change of current_state appends the state that
\* is left to state_history, also when the state is left for a second time,
\* so that once the claim has moved state_history is the sequence of the
\* states it has been in before the current one.
C22_HistoryIsPath ==
  [][claim'.current_state # claim.current_state
     => /\ claim'.state_history = SubSeq(visited', 1, Len(visited') - 1)
        /\ claim'.state_history[Len(claim'.state_history)]
             = claim.current_state]_vars

\* the claim as an operation has it just before it sets current_state: the
\* human endpoints have by then taken from pending_states what they take
BeforeChange ==
  IF last'.op \in {"approve_claim", "reject_claim"}
  THEN [claim EXCEPT !.pending_states = claim'.pending_states]
  ELSE claim

\* C23 (as claimed): every change of current_state that an endpoint makes,
\* by advance, by transition to a target, by approval or by rejection,
\* moves the claim to a state that get_valid_transitions held just before
\* the change.
C23_MovesAreValid ==
  [][claim'.current_state # claim.current_state
     => claim'.current_state \in Range(get_valid_transitions(BeforeChange))]_vars

\* C24 (as claimed): a risk detector, the handler of UNDER_REVIEW whose
\* fan-out flags or an endpoint whose analysis or aggregated decision
\* flags, leaves requires_investigation true: FRAUD_INVESTIGATION is never
\* newly pending after a call that leaves requires_investigation false.
C24_DetectedRiskSetsFlag ==
  [][(/\ FRAUD_INVESTIGATION \notin Range(claim.pending_states)
      /\ FRAUD_INVESTIGATION \in Range(claim'.pending_states))
     => claim'.requires_investigation]_vars

\* C25: requires_investigation, once true, stays true under every call
\* but approve_claim: under the advance endpoint with its transition, its
\* handlers and their insert_state, under the analysis endpoints, under
\* update_claim_for_investigation with a decision that does not flag, and
\* under reject_claim.
C25_FlagStaysSet ==
  [][(claim.requires_investigation /\ last'.op # "approve_claim")
     => claim'.requires_investigation]_vars

\* a decision that does not flag has been applied to a flagged claim
C25_Witness ==
  /\ last.op = "update_claim_for_investigation"
  /\ ~last.a1.requires_investigation
  /\ claim.requires_investigation
  /\ \E i \in 1..Len(claim.audit_log) : claim.audit_log[i].decision = "REJECTED"

\* the decision of the aggregator in the last full_analysis call
LastDecision == evaluate_results(last.a1, last.a2)

\* the producers' flags as the claims state them
VisionFlags(v) == v # <<>> /\ v[1].mismatch_found

TextFlags(t) == t # <<>> /\ t[1].inconsistency_score >= 5

\* C26: the aggregator's requires_investigation is the OR of the flag of
\* vision, which is set iff a vision result was supplied and its
\* mismatch_found is true, and the flag of text, which is set iff a text
\* result was supplied and its inconsistency_score is at least 5; with no
\* result supplied the decision does not flag.
C26_DecisionIsOr ==
  last.op = "full_analysis"
  => /\ LastDecision.vision_flagged = VisionFlags(last.a1)
     /\ LastDecision.text_flagged = TextFlags(last.a2)
     /\ LastDecision.requires_investigation
          = (VisionFlags(last.a1) \/ TextFlags(last.a2))
     /\ (last.a1 = <<>> /\ last.a2 = <<>>)
          => ~LastDecision.requires_investigation
     /\ LastDecision.requires_investigation => claim.requires_investigation

\* text alone has flagged a claim, with the score on the threshold
C26_Witness ==
  /\ last.op = "full_analysis"
  /\ last.a1 = <<>>
  /\ last.a2 = <<[inconsistency_score |-> 5]>>
  /\ claim.requires_investigation
  /\ claim.amount = 1000
  /\ claim.pending_states = <<FRAUD_INVESTIGATION>>

\* the contributions of the producers that ran, in hundredths, as the
\* claims state them
Contributions(v, t) ==
  (IF v = <<>> THEN {}
   ELSE IF ~v[1].mismatch_found THEN {10}
   ELSE IF v[1].confidence > 70 THEN {80} ELSE {50})
  \cup
  (IF t = <<>> THEN {}
   ELSE IF t[1].inconsistency_score >= 5
   THEN {t[1].inconsistency_score * 10}
   ELSE {t[1].inconsistency_score * 5})

\* C27: fraud_score is the largest contribution of the producers that ran
\* and 0.0 when none ran; vision {mismatch_found true, confidence 0.8} with
\* text score 2 gives 0.8 and requires_investigation true.
C27_ScoreIsMax ==
  last.op = "full_analysis"
  => /\ Contributions(last.a1, last.a2) = {}
          => LastDecision.fraud_score = 0
     /\ Contributions(last.a1, last.a2) # {}
          => LastDecision.fraud_score = Max(Contributions(last.a1, last.a2))
     /\ (/\ last.a1 = <<[mismatch_found |-> TRUE, confidence |-> 80]>>
         /\ last.a2 = <<[inconsistency_score |-> 2]>>)
          => /\ LastDecision.fraud_score = 80
             /\ LastDecision.requires_investigation
             /\ claim.requires_investigation

\* text has the larger contribution although vision came first
C27_Witness ==
  /\ last.op = "full_analysis"
  /\ last.a1 = <<[mismatch_found |-> FALSE, confidence |-> 80]>>
  /\ last.a2 = <<[inconsistency_score |-> 8]>>
  /\ LastDecision.fraud_score = 80
  /\ claim.requires_investigation

\* C28 (as claimed): when the text producer ran, its contribution is never
\* zero, whatever the inconsistency_score.
C28_TextScoreNeverZero ==
  (last.op = "full_analysis" /\ last.a2 # <<>>)
  => text_score(last.a2) > 0

\* C28 (amended): when the text producer ran, its contribution is
\* score/20 below the threshold and score/10 from the threshold on, which
\* is zero for the inconsistency_score 0 and greater than zero for every
\* inconsistency_score from 1 to 10.
C28_TextScoreZeroOnlyAtZero ==
  (last.op = "full_analysis" /\ last.a2 # <<>>)
  => LET n == last.a2[1].inconsistency_score
     IN /\ text_score(last.a2) = 0 <=> n = 0
        /\ n >= 1 => text_score(last.a2) > 0
        /\ text_score(last.a2) = IF n >= 5 THEN n * 10 ELSE n * 5
        /\ last.a1 = <<>> => LastDecision.fraud_score = text_score(last.a2)

\* the text producer alone ran and found nothing: the score is zero
C28_Witness ==
  /\ last.op = "full_analysis"
  /\ last.a1 = <<>>
  /\ last.a2 = <<[inconsistency_score |-> 0]>>
  /\ LastDecision.fraud_score = 0
  /\ ~LastDecision.requires_investigation

\* C29: for every optional vision result and every optional text result
\* with an inconsistency_score from 0 to 10, fraud_score lies between 0.0
\* and 1.0, the ends included.
C29_ScoreInUnitInterval ==
  last.op = "full_analysis"
  => /\ LastDecision.fraud_score >= 0
     /\ LastDecision.fraud_score <= 100

\* the largest score: text at 10 of 10
C29_Witness ==
  /\ last.op = "full_analysis"
  /\ last.a2 = <<[inconsistency_score |-> 10]>>
  /\ last.a1 # <<>>
  /\ LastDecision.fraud_score = 100

\* C30: update_claim_for_investigation with a decision that flags does to
\* the claim, whatever its state and whatever is pending, what setting
\* requires_investigation and calling insert_state(claim,
\* FRAUD_INVESTIGATION, ASSESSMENT) does, and with a decision that does not
\* flag it leaves the claim as it is.
C30_UpdateIsInsertion ==
  [][last'.op = "update_claim_for_investigation"
     => /\ last'.err = "None"
        /\ last'.a1.requires_investigation
             => LET flagged == [claim EXCEPT !.requires_investigation = TRUE]
                    r == insert_state(flagged, FRAUD_INVESTIGATION, ASSESSMENT)
                IN r.err = "None" /\ claim' = r.claim
        /\ ~last'.a1.requires_investigation => claim' = claim]_vars

\* a flagging decision has been applied while another state was pending
C30_Witness ==
  /\ last.op = "update_claim_for_investigation"
  /\ last.a1.requires_investigation
  /\ claim.pending_states = <<FRAUD_INVESTIGATION, ASSESSMENT>>
  /\ claim.requires_investigation
  /\ claim.current_state = FINAL_DECISION

Reverse(s) == [i \in 1..Len(s) |-> s[Len(s) + 1 - i]]

C32_VerdictOfSnapshot ==
  [][(last'.op = "on_state_entered" /\ last'.err = "None")
     => agent_evaluation(claim).requires_investigation
          = agent_evaluation(last'.a2).requires_investigation]_vars

\* a occurs in s before the first b, if b occurs
Before(a, b, s) ==
  \A j \in 1..Len(s) : s[j] = b => \E i \in 1..(j - 1) : s[i] = a

\* C36: a claim that the fan-out flags on entering UNDER_REVIEW enters
\* FRAUD_INVESTIGATION before it enters ASSESSMENT, also when another
\* advance request runs while the first is suspended in the fan-out: when
\* the fan-out ends with a flag, the claim has not been in ASSESSMENT
\* without having been in FRAUD_INVESTIGATION first.
C36_InvestigationBeforeAssessment ==
  (/\ last.op = "on_state_entered"
   /\ last.a1 = UNDER_REVIEW
   /\ last.err = "None"
   /\ agent_evaluation(claim).requires_investigation)
  => Before(FRAUD_INVESTIGATION, ASSESSMENT, visited)

\* C33: the text-analysis endpoint flags the claim exactly when the
\* inconsistency score of the text result is at least 5, which is when the
\* aggregator's text rule flags: with such a score the claim gets
\* requires_investigation and FRAUD_INVESTIGATION pending, with a smaller
\* score it is left as it is, whatever the verdict.
C33_TextFlagIsScoreRule ==
  [][last'.op = "analyze_text"
     => LET flagged ==
              [claim EXCEPT
                 !.requires_investigation = TRUE,
                 !.pending_states =
                    IF FRAUD_INVESTIGATION \notin Range(@)
                    THEN <<FRAUD_INVESTIGATION>> \o @ ELSE @]
            score == last'.a1.inconsistency_score
        IN claim' = IF text_flagged(<<[inconsistency_score |-> score]>>)
                    THEN flagged ELSE claim]_vars

\* C34: state_history and audit_log only grow at the end: after every
\* operation on the claim, each of the two has its previous value as a
\* prefix.
C34_AppendOnly ==
  [][/\ IsPrefix(claim.state_history, claim'.state_history)
     /\ IsPrefix(claim.audit_log, claim'.audit_log)]_vars

\* an approval and then a rejection have been logged, on a claim with two
\* states in its history
C34_Witness ==
  /\ last.op = "reject_claim"
  /\ Len(claim.audit_log) = 2
  /\ claim.audit_log[1].decision = "APPROVED"
  /\ claim.audit_log[2].decision = "REJECTED"
  /\ claim.state_history = <<SUBMITTED, UNDER_REVIEW>>

\* the states the static graph leads to from s in one to n moves
RECURSIVE ReachableIn(_, _)
ReachableIn(s, n) ==
  IF n = 0 THEN {}
  ELSE TRANSITIONS[s] \cup UNION {ReachableIn(t, n - 1) : t \in TRANSITIONS[s]}

\* C35: the static graph has no cycle, every state but FINAL_DECISION has
\* an outgoing edge and FINAL_DECISION has none, and the one edge out of
\* FRAUD_INVESTIGATION goes to ASSESSMENT; in particular the state the claim
\* is in has an edge out exactly when it is not FINAL_DECISION.
C35_GraphShape ==
  /\ \A s \in ClaimState : s \notin ReachableIn(s, Cardinality(ClaimState))
  /\ \A s \in ClaimState : (TRANSITIONS[s] = {}) <=> (s = FINAL_DECISION)
  /\ TRANSITIONS[FRAUD_INVESTIGATION] = {ASSESSMENT}
  /\ (TRANSITIONS[claim.current_state] = {})
       <=> (claim.current_state = FINAL_DECISION)

\* the claim has gone along every edge of the longest path, the edge out of
\* FRAUD_INVESTIGATION included, with transition calls
C35_Witness ==
  /\ last.op = "transition"
  /\ last.err = "None"
  /\ visited = <<SUBMITTED, UNDER_REVIEW, FRAUD_INVESTIGATION, ASSESSMENT,
                 FINAL_DECISION>>
  /\ used = {"transition"}

\* C37: pending_states never holds a state twice, whatever the calls of
\* insert_state, the monitor's advance with its transition and default
\* reaction, the aggregator's decision, the photo and text endpoints,
\* approve and reject that were made.
C37_PendingHasNoDuplicates ==
  \A s \in ClaimState : Count(s, claim.pending_states) <= 1

\* the aggregator's flagging decision has found FRAUD_INVESTIGATION already
\* queued, behind a state that insert_state queued after it
C37_Witness ==
  /\ last.op = "update_claim_for_investigation"
  /\ last.a1.requires_investigation
  /\ claim.pending_states = <<ASSESSMENT, FRAUD_INVESTIGATION>>
  /\ "insert_state" \in used

\* C38: advance never fails with InvalidTransition: in every reachable
\* state the next state, when there is one, is among the valid
\* transitions, so advance either moves the claim or fails with
\* TerminalState, and there is no next state exactly when nothing is
\* pending and the claim is in FINAL_DECISION.
C38_AdvanceNeverInvalid ==
  /\ get_next_state(claim) # None
       => get_next_state(claim) \in Range(get_valid_transitions(claim))
  /\ advance(claim).err \in {"None", "TerminalState"}
  /\ (get_next_state(claim) = None)
       <=> (claim.pending_states = <<>> /\ claim.current_state = FINAL_DECISION)
  /\ last.op = "advance" => last.err \in {"None", "TerminalState"}

\* advance has moved the claim into an inserted state that the static graph
\* does not lead to from where it was
C38_Witness ==
  /\ last.op = "advance"
  /\ last.err = "None"
  /\ "insert_state" \in used
  /\ visited = <<SUBMITTED, FRAUD_INVESTIGATION>>

C40_ScoreSeparatesVerdicts ==
  /\ \A v \in VisionResults, t \in TextResults :
       LET d == evaluate_results(v, t)
       IN /\ d.requires_investigation => d.fraud_score >= 50
          /\ ~d.requires_investigation => d.fraud_score <= 20
  /\ last.op = "full_analysis"
       => (LastDecision.fraud_score >= 50) = LastDecision.requires_investigation

\* the highest score without a flag: text at 4 of 10 beside a vision result
\* without mismatch
C40_Witness ==
  /\ last.op = "full_analysis"
  /\ last.a1 # <<>> /\ last.a2 = <<[inconsistency_score |-> 4]>>
  /\ ~LastDecision.requires_investigation
  /\ LastDecision.fraud_score = 20
====
